---- MODULE Spec2Model ----
(***************************************************************************)
(* A2 lattice error correction (error_correction_A2_version3.py):          *)
(* lattice mapping, segment resonance, NRCI, feedback loop, GLR layer.     *)
(*                                                                         *)
(* Number representation (exact, no floating point):                       *)
(*  - a lattice coordinate is kept as <<X, Y>> in lattice units, the real  *)
(*    coordinate being x = 5*X/16 and y = 5*sqrt(3)*Y/16;                  *)
(*  - a value handed to calculate_nrci is [r |-> a, s |-> b], standing for *)
(*    (a + b*sqrt(3)) / 16;                                                *)
(*  - an NRCI value or threshold is an integer number of 1/10000, the      *)
(*    floor of the real value, so that "nrci < t" is decided exactly for   *)
(*    every threshold with four decimals (0.2, 0.5, 0.9997);               *)
(*  - a resonance score is the fraction <<num, den>>;                      *)
(*  - a frequency is an integer on a grid chosen by the caller.            *)
(***************************************************************************)
EXTENDS Integers, Sequences, FiniteSets, TLC

VARIABLES
    pc,               \* position in full_error_correction
    offbit,           \* the caller's bit array (argument of the call)
    symbol_A, symbol_B, feedback_loops, nrci_thresholds,
    coord_xy, resonance_score, nrci, history, details, current_offbit,
    loop,             \* rounds of the for loop completed
    result,           \* the returned record
    rng_tape,         \* values the seeded random source has yielded, in order
    rng_pos,          \* draws consumed since the source was (re)seeded
    calls,            \* number of calls of full_error_correction started
    first_result,     \* the record the first call returned
    call              \* frame of a direct call of one of the pure functions

vars == <<pc, offbit, symbol_A, symbol_B, feedback_loops, nrci_thresholds,
          coord_xy, resonance_score, nrci, history, details, current_offbit,
          loop, result, rng_tape, rng_pos, calls, first_result, call>>

pipeline_vars == <<pc, offbit, symbol_A, symbol_B, feedback_loops,
                   nrci_thresholds, coord_xy, resonance_score, nrci, history,
                   details, current_offbit, loop, result, rng_tape, rng_pos,
                   calls, first_result>>

(***************************************************************************)
(* Bounds of the model.                                                    *)
(***************************************************************************)
MaxBits == 3        \* longest offbit array handed to full_error_correction
MaxLoops == 3       \* largest feedback_loops
MapPairs == 4       \* bit pairs of the vectors the mapping is enumerated on
MaxSegs == 2        \* most segments in one segment collection
MaxCands == 2       \* most candidates handed to glr_correction
MaxSeries == 2      \* longest frequency / weight series
MaxVec == 3         \* longest vector handed to calculate_nrci
SeriesReps == 1     \* repetitions of [3.10, 36.34] in the synthetic series

Resolution == 100 * 100     \* NRCI fixed point: 1/10000
Bits == {0, 1}

Abs(n) == IF n < 0 THEN -n ELSE n
Min2(a, b) == IF a <= b THEN a ELSE b

RECURSIVE SumUpTo(_, _)
SumUpTo(s, n) == IF n = 0 THEN 0 ELSE SumUpTo(s, n - 1) + s[n]

SeqSum(s) == SumUpTo(s, Len(s))

BitSeqs(n) == [1..n -> Bits]

(***************************************************************************)
(* 1. A2 lattice mapping                                                   *)
(***************************************************************************)
PadBits == 32
PairCount == 16

\* the table with the vertical component of its last vector left out
A2_VECTORS_NoSqrt == [v \in 0..3 |->
                        CASE v = 0 -> <<0, 0>>
                          [] v = 1 -> <<2, 0>>
                          [] v = 2 -> <<1, 1>>
                          [] v = 3 -> <<-1, 0>>]

\* A2_VECTORS in lattice units: first component in halves, second in
\* multiples of sqrt(3)/2.
A2_VECTORS == [v \in 0..3 |->
                 CASE v = 0 -> <<0, 0>>
                   [] v = 1 -> <<2, 0>>
                   [] v = 2 -> <<1, 1>>
                   [] v = 3 -> <<-1, 1>>]

\* np.pad(offbit, (0, max(0, 32 - len)), "constant")[:32]
Padded(bits) ==
    [i \in 1..PadBits |-> IF i <= Len(bits) THEN bits[i] ELSE 0]

\* padded.reshape(16, 2); pairs[:, 0] * 2 + pairs[:, 1]
PairValues(bits) ==
    LET p == Padded(bits)
    IN  [k \in 1..PairCount |-> p[2 * k - 1] * 2 + p[2 * k]]

\* the two sums over A2_VECTORS; the scale 5/(16/2) is the unit of <<X, Y>>
MapOffbitToA2Coordinate(bits) ==
    LET pv == PairValues(bits)
    IN  <<SeqSum([k \in 1..PairCount |-> A2_VECTORS[pv[k]][1]]),
          SeqSum([k \in 1..PairCount |-> A2_VECTORS[pv[k]][2]])>>

\* 256/25 times the squared magnitude x^2 + y^2 of a coordinate
SqMagnitude(c) == c[1] * c[1] + 3 * c[2] * c[2]

(***************************************************************************)
(* 2. Geo-parser resonance.  A vertex is a number (its rank in the order   *)
(* of the vertex names), a segment a pair of vertices, a collection a set  *)
(* of pairs: set(...) drops the order and the repetitions of the list, and *)
(* an empty list and None are both falsy.                                  *)
(***************************************************************************)
SortedSeg(seg) == IF seg[1] <= seg[2] THEN seg ELSE <<seg[2], seg[1]>>

NormSet(segments) == {SortedSeg(seg) : seg \in segments}

GeometricAdd(segments_A, segments_B) ==
    LET set_A == NormSet(segments_A)
        set_B == NormSet(segments_B)
    IN  [result_segments |-> set_A \cup set_B,
         coherence_count |-> Cardinality(set_A \cap set_B),
         total_unique_segments |-> Cardinality(set_A \cup set_B)]

\* the divisor without its "or 1" guard
OrOneUnguarded(n) == n

\* (n or 1)
OrOne(n) == IF n = 0 THEN 1 ELSE n

\* Python's a / b on numbers: ZeroDivisionError when b = 0
Divide(a, b) ==
    IF b = 0 THEN [raises |-> "ZeroDivisionError", score |-> <<0, 1>>]
             ELSE [raises |-> "", score |-> <<a, b>>]

\* len(set(result_segs).intersection(target_set))
MatchedCount(result_segs, target_set) == Cardinality(result_segs \cap target_set)

\* the difference taken the other way round
ErrorCountReversed(result_segs, target_set) == Cardinality(target_set \ result_segs)

\* len(set(result_segs).difference(target_set))
ErrorCount(result_segs, target_set) == Cardinality(result_segs \ target_set)

ComputeResonanceScore(segments_A, segments_B, target_segments) ==
    LET g == GeometricAdd(segments_A, segments_B)
        coherence == g.coherence_count
        total == g.total_unique_segments
    IN  IF target_segments # {}
        THEN LET target_set == NormSet(target_segments)
                 matched == MatchedCount(g.result_segments, target_set)
                 error == ErrorCount(g.result_segments, target_set)
                 TARGET_SEG_COUNT == Cardinality(target_set)
                 q == Divide(matched - error, OrOne(TARGET_SEG_COUNT))
             IN  [raises |-> q.raises, score |-> q.score, matched |-> matched,
                  error |-> error, total |-> total]
        ELSE LET q == Divide(coherence, OrOne(total))
             IN  [raises |-> q.raises, score |-> q.score,
                  matched |-> coherence, error |-> total - coherence,
                  total |-> total]

(***************************************************************************)
(* 3. NRCI                                                                 *)
(***************************************************************************)
\* numpy broadcasting of two 1-d arrays: equal lengths, or one of length 1
Broadcastable(n, m) == n = m \/ n = 1 \/ m = 1

BroadcastLen(n, m) == IF n = m THEN n ELSE IF n = 1 THEN m ELSE n

Elem(v, i) == IF Len(v) = 1 THEN v[1] ELSE v[i]

\* 256 * (a - b)^2 for a = (a.r + a.s*sqrt3)/16; the rational part, which is
\* the whole of it when a.s = b.s or a.r = b.r (every vector built here)
SqDev(a, b) == (a.r - b.r) * (a.r - b.r) + 3 * (a.s - b.s) * (a.s - b.s)

\* 256 * np.sum((S - T) ** 2)
SumSqDev(S, T) ==
    SeqSum([i \in 1..BroadcastLen(Len(S), Len(T)) |->
              SqDev(Elem(S, i), Elem(T, i))])

\* 256 * m^2 * np.std(T)^2 for the m rational values of T
VarNum(T) ==
    LET m == Len(T)
    IN  m * SeqSum([i \in 1..m |-> T[i].r * T[i].r])
        - SeqSum([i \in 1..m |-> T[i].r]) * SeqSum([i \in 1..m |-> T[i].r])

\* c * c * Q >= 10^8 * P, computed in two limbs of 10^4 (32-bit integers)
ScaledSqGe(c, P, Q) ==
    LET sq == c * c
        hi == (sq \div Resolution) * Q + ((sq % Resolution) * Q) \div Resolution
    IN  hi >= P * Resolution

\* least c in lo..hi with ScaledSqGe(c, P, Q), which hi satisfies
RECURSIVE LeastScaled(_, _, _, _)
LeastScaled(lo, hi, P, Q) ==
    IF lo >= hi THEN hi
    ELSE LET mid == (lo + hi) \div 2
         IN  IF ScaledSqGe(mid, P, Q) THEN LeastScaled(lo, mid, P, Q)
                                      ELSE LeastScaled(mid + 1, hi, P, Q)

\* max(0.0, min(1.0, 1 - sqrt(P/Q))) in 1/10000, rounded down
ClampedNrci(P, Q) ==
    IF P >= Q THEN 0 ELSE Resolution - LeastScaled(0, Resolution, P, Q)

CalculateNrci(system_values, target_values) ==
    LET n == Len(system_values)
        m == Len(target_values)
    IN  IF ~Broadcastable(n, m)
        THEN [raises |-> "ValueError", nrci |-> 0]
        ELSE IF n = 0
        \* 0.0 / 0 is nan; min(1.0, nan) is 1.0
        THEN [raises |-> "", nrci |-> Resolution]
        ELSE LET sumsq == SumSqDev(system_values, target_values)
                 v == VarNum(target_values)
             IN  [raises |-> "",
                  nrci |-> IF m > 0 /\ v > 0
                           THEN ClampedNrci(sumsq * m * m, n * v)
                           ELSE ClampedNrci(sumsq, 256 * n)]

(***************************************************************************)
(* 4. GLR correction layer                                                 *)
(***************************************************************************)
\* sum(w * abs(fi - f) for fi, w in zip(frequencies, nrcis))
WeightedError(frequencies, nrcis, f) ==
    SeqSum([i \in 1..Min2(Len(frequencies), Len(nrcis)) |->
              nrcis[i] * Abs(frequencies[i] - f)])

\* the list errors of (err, f) tuples, in the order of the candidates
Errors(frequencies, nrcis, candidates) ==
    [k \in 1..Len(candidates) |->
       <<WeightedError(frequencies, nrcis, candidates[k]), candidates[k]>>]

\* an order that compares the errors alone (min with key=error)
TupleLessByError(a, b) == a[1] < b[1]

\* Python's order on (err, f) tuples
TupleLess(a, b) == a[1] < b[1] \/ (a[1] = b[1] /\ a[2] < b[2])

\* min(errors): the running minimum, replaced by a strictly smaller tuple
RECURSIVE MinFrom(_, _, _)
MinFrom(errors, k, best) ==
    IF k > Len(errors) THEN best
    ELSE MinFrom(errors, k + 1,
                 IF TupleLess(errors[k], best) THEN errors[k] ELSE best)

MinTuple(errors) == MinFrom(errors, 2, errors[1])

GlrCorrection(frequencies, nrcis, candidates) ==
    LET e == MinTuple(Errors(frequencies, nrcis, candidates))
    IN  [f_corrected |-> e[2], err_min |-> e[1]]

\* candidates=[3.14159, 36.339691], in units of 0.001 (truncated)
DefaultCandidates == <<3141, 36339>>

\* [3.10, 36.34] * 10000, in units of 0.001, repeated SeriesReps times
SyntheticFrequencies ==
    [i \in 1..(2 * SeriesReps) |-> IF i % 2 = 1 THEN 3100 ELSE 36340]

(***************************************************************************)
(* 5. full_error_correction                                                *)
(***************************************************************************)
Symbols == {"1", "0", "x"}

\* vertex names by rank: C1 = 1, C2 = 2, C3 = 3, C4 = 4, V0 = 5, V1 = 6
GEO_FORMS(symbol) ==
    CASE symbol = "1" -> {<<5, 6>>}
      [] symbol = "0" -> {<<1, 2>>, <<2, 4>>, <<4, 3>>, <<3, 1>>}
      [] OTHER -> {}

\* the default (0.2, 0.5, 0.9997) and other triples a caller may pass
DefaultThresholds == <<2000, 5000, 9997>>
ThresholdTriples == {DefaultThresholds, <<7000, 8000, 8400>>, <<2000, 9000, 8000>>}

\* a score num/den in sixteenths (exact for the denominators of GEO_FORMS)
ScoreSixteenths(score) == (16 * score[1]) \div score[2]

\* [resonance_score, coord_xy[0]/5.0, coord_xy[1]/5.0]
SystemValues(score, coord) ==
    << [r |-> ScoreSixteenths(score), s |-> 0],
       [r |-> coord[1], s |-> 0],
       [r |-> 0, s |-> coord[2]] >>

\* [1.0, 0.0, 0.0]
TargetValues == << [r |-> 16, s |-> 0], [r |-> 0, s |-> 0], [r |-> 0, s |-> 0] >>

PipelineNrci(score, coord) ==
    CalculateNrci(SystemValues(score, coord), TargetValues).nrci

PipelineScore(sym_A, sym_B) ==
    ComputeResonanceScore(GEO_FORMS(sym_A), GEO_FORMS(sym_B), GEO_FORMS(sym_B)).score

\* the flip decided against the mid threshold
IsLowAtMid(value, thresholds) == value < thresholds[2]

\* nrci < nrci_thresholds[0]
IsLow(value, thresholds) == value < thresholds[1]

\* the escalation decided against the low threshold
EscalatesAtLow(value, thresholds) == value < thresholds[1]

\* nrci < nrci_thresholds[1]
Escalates(value, thresholds) == value < thresholds[2]

\* nrci < nrci_thresholds[2]
BelowHigh(value, thresholds) == value < thresholds[3]

\* the bit set instead of flipped (|= 1)
FlipBitSet(bits, flip_idx) == [bits EXCEPT ![flip_idx + 1] = 1]

\* current_offbit[flip_idx] ^= 1 (flip_idx counts from 0)
FlipBit(bits, flip_idx) == [bits EXCEPT ![flip_idx + 1] = 1 - @]

\* current_offbit = offbit.copy(): what the caller's array holds after a write
\* to the working array
CallerArrayAfterWrite(caller_bits, written_bits) == caller_bits

\* a source that ignores its seed
RandIntUnseeded(tape, pos, size) == 0..(size - 1)

\* np.random.randint(0, size): the next value of the source, which repeats
\* the values it yielded before when it was reseeded with the same seed
RandInt(tape, pos, size) ==
    IF pos < Len(tape) THEN {tape[pos + 1]} ELSE 0..(size - 1)

\* {'loop': loop+1, 'coordinate': coord_xy, 'nrci': nrci}
HistoryEntry(loop_var, coord, value) ==
    [loop |-> loop_var + 1, coordinate |-> coord, nrci |-> value]

\* one line of details; bit is -1 and loop 0 where the line names none
Detail(kind, loop_no, bit, value) ==
    [kind |-> kind, loop |-> loop_no, bit |-> bit, nrci |-> value]

NoStatus == <<>>

NoResult ==
    [coordinate |-> <<0, 0, 0>>, resonance_score |-> <<0, 1>>, nrci |-> 0,
     recommendation |-> "", glr_status |-> NoStatus, details |-> <<>>,
     history |-> <<>>]

\* the result record of lines 137-146
ResultRecord(z_layer, recommendation, glr_status, last_detail) ==
    [coordinate |-> <<coord_xy[1], coord_xy[2], z_layer>>,
     resonance_score |-> resonance_score,
     nrci |-> nrci,
     recommendation |-> recommendation,
     glr_status |-> glr_status,
     details |-> Append(details, last_detail),
     history |-> history]

LocalsIdle ==
    /\ coord_xy = <<0, 0>>
    /\ resonance_score = <<0, 1>>
    /\ nrci = 0
    /\ history = <<>>
    /\ details = <<>>
    /\ current_offbit = <<>>
    /\ loop = 0
    /\ result = NoResult

CallIdle == call = [op |-> "none"]

Init ==
    /\ pc = "start"
    /\ \E n \in 1..MaxBits : offbit \in BitSeqs(n)
    /\ symbol_A \in Symbols
    /\ symbol_B \in Symbols
    /\ feedback_loops \in 0..MaxLoops
    /\ nrci_thresholds \in ThresholdTriples
    /\ LocalsIdle
    /\ rng_tape = <<>>
    /\ rng_pos = 0
    /\ calls = 1
    /\ first_result = NoResult
    /\ CallIdle

\* The conditions under which each step of the call is taken; the effects
\* below are defined wherever their condition holds.
CanStart == pc = "start"

InRound == pc = "loop" /\ loop < feedback_loops

AfterRounds == pc = "loop" /\ loop = feedback_loops

\* randint(0, size) needs size >= 1
CanLoopLow ==
    /\ InRound
    /\ IsLow(nrci, nrci_thresholds)
    /\ RandInt(rng_tape, rng_pos, Len(current_offbit)) # {}

CanLoopModerate ==
    /\ InRound
    /\ ~IsLow(nrci, nrci_thresholds)
    /\ BelowHigh(nrci, nrci_thresholds)

CanLoopHigh ==
    /\ InRound
    /\ ~IsLow(nrci, nrci_thresholds)
    /\ ~BelowHigh(nrci, nrci_thresholds)

CanGlrEscalate == AfterRounds /\ Escalates(nrci, nrci_thresholds)

CanRecommendModerate ==
    /\ AfterRounds
    /\ ~Escalates(nrci, nrci_thresholds)
    /\ BelowHigh(nrci, nrci_thresholds)

CanRecommendHigh ==
    /\ AfterRounds
    /\ ~Escalates(nrci, nrci_thresholds)
    /\ ~BelowHigh(nrci, nrci_thresholds)

\* lines 84-101: mapping, resonance score, initial NRCI, empty logs, the copy
Start ==
    /\ CanStart
    /\ coord_xy' = MapOffbitToA2Coordinate(offbit)
    /\ resonance_score' = PipelineScore(symbol_A, symbol_B)
    /\ nrci' = PipelineNrci(resonance_score', coord_xy')
    /\ history' = <<>>
    /\ details' = <<>>
    /\ current_offbit' = offbit
    /\ loop' = 0
    /\ pc' = "loop"
    /\ UNCHANGED <<offbit, symbol_A, symbol_B, feedback_loops, nrci_thresholds,
                   result, rng_tape, rng_pos, calls, first_result, call>>

\* lines 104-110 and 115: a round that finds the NRCI low
LoopLow ==
    /\ CanLoopLow
    /\ \E flip_idx \in RandInt(rng_tape, rng_pos, Len(current_offbit)) :
         /\ rng_tape' = IF rng_pos < Len(rng_tape) THEN rng_tape
                        ELSE Append(rng_tape, flip_idx)
         /\ rng_pos' = rng_pos + 1
         /\ current_offbit' = FlipBit(current_offbit, flip_idx)
         /\ offbit' = CallerArrayAfterWrite(offbit, current_offbit')
         /\ coord_xy' = MapOffbitToA2Coordinate(current_offbit')
         /\ nrci' = PipelineNrci(resonance_score, coord_xy')
         /\ details' = Append(details,
                              Detail("NRCI low, bit flipped", loop + 1, flip_idx, nrci'))
         /\ history' = Append(history, HistoryEntry(loop, coord_xy', nrci'))
    /\ loop' = loop + 1
    /\ UNCHANGED <<pc, symbol_A, symbol_B, feedback_loops, nrci_thresholds,
                   resonance_score, result, calls, first_result, call>>

\* lines 111-112 and 115
LoopModerate ==
    /\ CanLoopModerate
    /\ details' = Append(details, Detail("NRCI moderate", loop + 1, -1, nrci))
    /\ history' = Append(history, HistoryEntry(loop, coord_xy, nrci))
    /\ loop' = loop + 1
    /\ UNCHANGED <<pc, offbit, symbol_A, symbol_B, feedback_loops,
                   nrci_thresholds, coord_xy, resonance_score, nrci,
                   current_offbit, result, rng_tape, rng_pos, calls,
                   first_result, call>>

\* the high branch leaving the loop (break)
LoopHighBreaks ==
    /\ CanLoopHigh
    /\ details' = Append(details, Detail("NRCI high", loop + 1, -1, nrci))
    /\ history' = Append(history, HistoryEntry(loop, coord_xy, nrci))
    /\ loop' = feedback_loops
    /\ UNCHANGED <<pc, offbit, symbol_A, symbol_B, feedback_loops,
                   nrci_thresholds, coord_xy, resonance_score, nrci,
                   current_offbit, result, rng_tape, rng_pos, calls,
                   first_result, call>>

\* lines 113-115
LoopHigh ==
    /\ CanLoopHigh
    /\ details' = Append(details, Detail("NRCI high", loop + 1, -1, nrci))
    /\ history' = Append(history, HistoryEntry(loop, coord_xy, nrci))
    /\ loop' = loop + 1
    /\ UNCHANGED <<pc, offbit, symbol_A, symbol_B, feedback_loops,
                   nrci_thresholds, coord_xy, resonance_score, nrci,
                   current_offbit, result, rng_tape, rng_pos, calls,
                   first_result, call>>

\* lines 121-129, then 137-146
GlrEscalate ==
    /\ CanGlrEscalate
    /\ LET frequencies == SyntheticFrequencies
           nrcis == [i \in 1..Len(frequencies) |-> nrci]
           g == GlrCorrection(frequencies, nrcis, DefaultCandidates)
       IN  result' = ResultRecord(1, "GLR", <<g.f_corrected, g.err_min>>,
                                  Detail("invoked GLR correction", 0, -1, nrci))
    /\ pc' = "done"
    /\ UNCHANGED <<offbit, symbol_A, symbol_B, feedback_loops, nrci_thresholds,
                   coord_xy, resonance_score, nrci, history, details,
                   current_offbit, loop, rng_tape, rng_pos, calls,
                   first_result, call>>

\* lines 130-132, then 137-146
RecommendModerate ==
    /\ CanRecommendModerate
    /\ result' = ResultRecord(0, "A2", NoStatus,
                              Detail("A2 geometric correction recommended", 0, -1, nrci))
    /\ pc' = "done"
    /\ UNCHANGED <<offbit, symbol_A, symbol_B, feedback_loops, nrci_thresholds,
                   coord_xy, resonance_score, nrci, history, details,
                   current_offbit, loop, rng_tape, rng_pos, calls,
                   first_result, call>>

\* lines 133-135, then 137-146
RecommendHigh ==
    /\ CanRecommendHigh
    /\ result' = ResultRecord(0, "A2-high", NoStatus,
                              Detail("A2 correction sufficient", 0, -1, nrci))
    /\ pc' = "done"
    /\ UNCHANGED <<offbit, symbol_A, symbol_B, feedback_loops, nrci_thresholds,
                   coord_xy, resonance_score, nrci, history, details,
                   current_offbit, loop, rng_tape, rng_pos, calls,
                   first_result, call>>

Next ==
    \/ Start
    \/ LoopLow
    \/ LoopModerate
    \/ LoopHigh
    \/ GlrEscalate
    \/ RecommendModerate
    \/ RecommendHigh

Spec == Init /\ [][Next]_vars

(***************************************************************************)
(* The same call made twice by one caller: the same array object and       *)
(* arguments, the random source reseeded with the same seed in between.    *)
(***************************************************************************)
CallAgain ==
    /\ pc = "done"
    /\ calls = 1
    /\ first_result' = result
    /\ calls' = 2
    /\ rng_pos' = 0
    /\ pc' = "start"
    /\ coord_xy' = <<0, 0>>
    /\ resonance_score' = <<0, 1>>
    /\ nrci' = 0
    /\ history' = <<>>
    /\ details' = <<>>
    /\ current_offbit' = <<>>
    /\ loop' = 0
    /\ result' = NoResult
    /\ UNCHANGED <<offbit, symbol_A, symbol_B, feedback_loops, nrci_thresholds,
                   rng_tape, call>>

NextSeeded ==
    \/ Next
    \/ CallAgain

SpecSeeded == Init /\ [][NextSeeded]_vars

(***************************************************************************)
(* Direct calls of the pure functions, the arguments drawn from small sets *)
(***************************************************************************)
PipelineIdle ==
    /\ pc = "idle"
    /\ offbit = <<>>
    /\ symbol_A = ""
    /\ symbol_B = ""
    /\ feedback_loops = 0
    /\ nrci_thresholds = DefaultThresholds
    /\ LocalsIdle
    /\ rng_tape = <<>>
    /\ rng_pos = 0
    /\ calls = 0
    /\ first_result = NoResult

\* map_offbit_to_a2_coordinate(offbit)
InitMap ==
    /\ PipelineIdle
    /\ \E b \in BitSeqs(2 * MapPairs) :
         call = [op |-> "map_offbit_to_a2_coordinate", offbit |-> b,
                 returned |-> FALSE, coordinate |-> <<0, 0>>]

ReturnMap ==
    /\ call.op = "map_offbit_to_a2_coordinate"
    /\ ~call.returned
    /\ call' = [call EXCEPT !.returned = TRUE,
                            !.coordinate = MapOffbitToA2Coordinate(call.offbit)]
    /\ UNCHANGED pipeline_vars

NextMap == ReturnMap

SpecMap == InitMap /\ [][NextMap]_vars

\* compute_resonance_score(segments_A, segments_B, target_segments)
SegVertices == {1, 2, 3}
Segments == {<<u, v>> : u \in SegVertices, v \in SegVertices} \ {<<u, u>> : u \in SegVertices}
Collections == {c \in SUBSET Segments : Cardinality(c) <= MaxSegs}

InitRes ==
    /\ PipelineIdle
    /\ \E a \in Collections, b \in Collections, t \in Collections :
         call = [op |-> "compute_resonance_score", segments_A |-> a,
                 segments_B |-> b, target_segments |-> t, returned |-> FALSE,
                 raises |-> "", score |-> <<0, 1>>, matched |-> 0, error |-> 0,
                 total |-> 0]

ReturnRes ==
    /\ call.op = "compute_resonance_score"
    /\ ~call.returned
    /\ LET r == ComputeResonanceScore(call.segments_A, call.segments_B,
                                      call.target_segments)
       IN  call' = [call EXCEPT !.returned = TRUE, !.raises = r.raises,
                                !.score = r.score, !.matched = r.matched,
                                !.error = r.error, !.total = r.total]
    /\ UNCHANGED pipeline_vars

NextRes == ReturnRes

SpecRes == InitRes /\ [][NextRes]_vars

\* calculate_nrci(system_values, target_values)
NrciGrid == {[r |-> 0, s |-> 0], [r |-> 16, s |-> 0]}
Vectors == UNION {[1..n -> NrciGrid] : n \in 0..MaxVec}

InitNrci ==
    /\ PipelineIdle
    /\ \E sv \in Vectors, tv \in Vectors :
         call = [op |-> "calculate_nrci", system_values |-> sv,
                 target_values |-> tv, returned |-> FALSE, raises |-> "",
                 nrci |-> 0]

ReturnNrci ==
    /\ call.op = "calculate_nrci"
    /\ ~call.returned
    /\ LET r == CalculateNrci(call.system_values, call.target_values)
       IN  call' = [call EXCEPT !.returned = TRUE, !.raises = r.raises,
                                !.nrci = r.nrci]
    /\ UNCHANGED pipeline_vars

NextNrci == ReturnNrci

SpecNrci == InitNrci /\ [][NextNrci]_vars

\* glr_correction(frequencies, nrcis, candidates)
FreqGrid == 0..3
WeightGrid == {0, 1}
CandidateLists == UNION {[1..n -> FreqGrid] : n \in 1..MaxCands}

InitGlr ==
    /\ PipelineIdle
    /\ \E n \in 0..MaxSeries :
         \E fs \in [1..n -> FreqGrid], ws \in [1..n -> WeightGrid],
            cs \in CandidateLists :
              call = [op |-> "glr_correction", frequencies |-> fs,
                      nrcis |-> ws, candidates |-> cs, returned |-> FALSE,
                      f_corrected |-> 0, err_min |-> 0]

ReturnGlr ==
    /\ call.op = "glr_correction"
    /\ ~call.returned
    /\ LET g == GlrCorrection(call.frequencies, call.nrcis, call.candidates)
       IN  call' = [call EXCEPT !.returned = TRUE,
                                !.f_corrected = g.f_corrected,
                                !.err_min = g.err_min]
    /\ UNCHANGED pipeline_vars

NextGlr == ReturnGlr

SpecGlr == InitGlr /\ [][NextGlr]_vars

(***************************************************************************)
(* Properties                                                              *)
(***************************************************************************)
LowKind == "NRCI low, bit flipped"

\* the NRCI of the call's arguments, before any round
InitialNrci ==
    PipelineNrci(PipelineScore(symbol_A, symbol_B), MapOffbitToA2Coordinate(offbit))

\* the NRCI and the coordinate after the last round, read from the history
FinalNrci ==
    IF feedback_loops = 0 THEN InitialNrci
    ELSE result.history[feedback_loops].nrci

FinalXY ==
    IF feedback_loops = 0 THEN MapOffbitToA2Coordinate(offbit)
    ELSE result.history[feedback_loops].coordinate

ResultXY == <<result.coordinate[1], result.coordinate[2]>>

\* some step of the call can be taken
CanStep ==
    \/ CanStart
    \/ CanLoopLow
    \/ CanLoopModerate
    \/ CanLoopHigh
    \/ CanGlrEscalate
    \/ CanRecommendModerate
    \/ CanRecommendHigh

\* C1: a call with feedback_loops = N never stops before it returns, logs one
\* history entry per round whatever branch the round takes, and returns a
\* history of exactly N entries whose loop indices are 1..N in order.
C1_HistoryOnePerRound ==
    /\ pc \in {"loop", "done"} =>
         /\ Len(history) = loop
         /\ loop <= feedback_loops
         /\ \A i \in 1..Len(history) : history[i].loop = i
    /\ pc = "done" =>
         /\ Len(result.history) = feedback_loops
         /\ \A i \in 1..feedback_loops : result.history[i].loop = i
    /\ pc # "done" => CanStep

\* C1 witness: the high branch was taken in round 1 and the later rounds ran
C1_Witness ==
    /\ pc = "done"
    /\ feedback_loops >= 2
    /\ result.details[1].kind = "NRCI high"
    /\ Len(result.history) = feedback_loops

\* C2: in the returned record the layer tag is 1, the recommendation 'GLR'
\* and glr_status set exactly when the final NRCI is below the mid threshold;
\* otherwise the tag is 0, glr_status is None and the recommendation is 'A2'
\* below the high threshold and 'A2-high' from it on; x and y are those of
\* the last round in every branch.
C2_EscalationDecision ==
    pc = "done" =>
      /\ result.nrci = FinalNrci
      /\ ResultXY = FinalXY
      /\ IF FinalNrci < nrci_thresholds[2]
         THEN /\ result.coordinate[3] = 1
              /\ result.recommendation = "GLR"
              /\ result.glr_status # NoStatus
         ELSE /\ result.coordinate[3] = 0
              /\ result.glr_status = NoStatus
              /\ result.recommendation =
                   (IF FinalNrci < nrci_thresholds[3] THEN "A2" ELSE "A2-high")

\* C2 witness: the escalation fires after a round that found the NRCI moderate
C2_Witness ==
    /\ pc = "done"
    /\ feedback_loops >= 1
    /\ result.details[feedback_loops].kind = "NRCI moderate"
    /\ result.recommendation = "GLR"
    /\ result.coordinate[3] = 1

\* C3: a second call with the same arguments and the random source reseeded
\* with the same seed returns the record the first call returned.
C3_Determinism ==
    (calls = 2 /\ pc = "done") => result = first_result

\* C3 witness: both calls drew from the random source at least twice
C3_Witness ==
    /\ calls = 2
    /\ pc = "done"
    /\ rng_pos >= 2
    /\ Len(result.history) >= 2

\* the sum of weighted absolute deviations of the call's series from c
GlrError(c) ==
    SeqSum([i \in 1..Len(call.frequencies) |->
              call.nrcis[i] * Abs(call.frequencies[i] - c)])

GlrMinimal ==
    /\ \E k \in 1..Len(call.candidates) : call.candidates[k] = call.f_corrected
    /\ call.err_min = GlrError(call.f_corrected)
    /\ \A k \in 1..Len(call.candidates) :
         call.err_min <= GlrError(call.candidates[k])

\* C4 (amended): glr_correction returns a candidate of minimal weighted error
\* with that error; among several minimal candidates it returns the smallest
\* in value.
C4_GlrMinimalSmallest ==
    call.returned =>
      /\ GlrMinimal
      /\ \A k \in 1..Len(call.candidates) :
           GlrError(call.candidates[k]) = call.err_min =>
             call.f_corrected <= call.candidates[k]

\* C4 as claimed: among several minimal candidates the first in the order of
\* the candidate list is returned.
C4_GlrFirstMinimal ==
    call.returned =>
      /\ GlrMinimal
      /\ \E k \in 1..Len(call.candidates) :
           /\ call.candidates[k] = call.f_corrected
           /\ \A j \in 1..(k - 1) : GlrError(call.candidates[j]) > call.err_min

\* C4 witness: two candidates tie, in descending order, the second is returned
C4_Witness ==
    /\ call.returned
    /\ Len(call.candidates) = 2
    /\ Len(call.frequencies) = 2
    /\ call.candidates[1] > call.candidates[2]
    /\ GlrError(call.candidates[1]) = GlrError(call.candidates[2])
    /\ call.f_corrected = call.candidates[2]
    /\ call.err_min > 0

\* the argument collections with the endpoints of each segment in order
NormA == {SortedSeg(seg) : seg \in call.segments_A}
NormB == {SortedSeg(seg) : seg \in call.segments_B}
NormT == {SortedSeg(seg) : seg \in call.target_segments}

DisjointCall == call.returned /\ NormA \cap NormB = {} /\ call.target_segments # {}

\* C5 (amended): for disjoint A and B and a non-empty target the score is
\* (matched - error)/|target|, negative or zero exactly when the segments of
\* the union inside the target are no more than those outside it; with
\* target = B it is (|B| - |A|)/|B|, negative or zero exactly when A has at
\* least as many segments as B.
C5_DisjointScoreSign ==
    DisjointCall =>
      /\ call.raises = ""
      /\ call.score[2] > 0
      /\ call.score[1] * Cardinality(NormT) =
           call.score[2] * (Cardinality((NormA \cup NormB) \cap NormT)
                            - Cardinality((NormA \cup NormB) \ NormT))
      /\ (call.score[1] <= 0) <=>
           (Cardinality((NormA \cup NormB) \cap NormT)
              <= Cardinality((NormA \cup NormB) \ NormT))
      /\ NormT = NormB =>
           /\ call.score[1] * Cardinality(NormB) =
                call.score[2] * (Cardinality(NormB) - Cardinality(NormA))
           /\ (call.score[1] <= 0) <=> (Cardinality(NormA) >= Cardinality(NormB))

\* C5 as claimed: for disjoint A and B and a non-empty target the score is
\* negative or zero.
C5_DisjointScoreNotPositive ==
    DisjointCall => (call.raises = "" /\ call.score[2] > 0 /\ call.score[1] <= 0)

\* C5 witness: disjoint non-empty A and B, target = B, a positive score
C5_Witness ==
    /\ DisjointCall
    /\ call.segments_A # {}
    /\ call.target_segments = call.segments_B
    /\ Cardinality(NormB) > Cardinality(NormA)
    /\ call.score[1] > 0

\* C6 (amended): compute_resonance_score never divides by zero; the score is
\* 0 whenever the union of A and B is empty; with an empty target it is
\* |A and B in common| / |union| (over 1 for an empty union), which is 0
\* exactly when A and B share no segment.
C6_GuardedScore ==
    call.returned =>
      /\ call.raises = ""
      /\ call.score[2] > 0
      /\ (NormA \cup NormB = {}) => call.score[1] = 0
      /\ call.target_segments = {} =>
           /\ call.score[1] = Cardinality(NormA \cap NormB)
           /\ call.score[2] =
                (IF NormA \cup NormB = {} THEN 1 ELSE Cardinality(NormA \cup NormB))
           /\ (call.score[1] = 0) <=> (NormA \cap NormB = {})

\* C6 as claimed: no division by zero, and score 0 whenever the target is
\* empty or the union of A and B is empty.
C6_ZeroOnEmptyTarget ==
    call.returned =>
      /\ call.raises = ""
      /\ (call.target_segments = {} \/ NormA \cup NormB = {}) => call.score[1] = 0

\* C6 witness: an empty target with A and B sharing a segment, score not 0
C6_Witness ==
    /\ call.returned
    /\ call.target_segments = {}
    /\ NormA \cap NormB # {}
    /\ call.score[1] > 0
    /\ call.raises = ""

\* C7: calculate_nrci raises exactly when the lengths of its two vectors
\* differ, and returns a value otherwise.
C7_LengthMismatchRaises ==
    call.returned =>
      ((Len(call.system_values) # Len(call.target_values)) <=> (call.raises # ""))

AllBits(b) == [i \in 1..(2 * MapPairs) |-> b]

\* C8: over the bit vectors of MapPairs pairs (zero padded to 32 bits) the
\* all-zero vector maps to a coordinate of least squared magnitude and the
\* all-one vector to a coordinate of greatest squared magnitude.
C8_MapExtremes ==
    call.returned =>
      /\ SqMagnitude(MapOffbitToA2Coordinate(AllBits(0))) <= SqMagnitude(call.coordinate)
      /\ SqMagnitude(call.coordinate) <= SqMagnitude(MapOffbitToA2Coordinate(AllBits(1)))
      /\ call.offbit = AllBits(0) => SqMagnitude(call.coordinate) = 0
      /\ call.offbit = AllBits(1) =>
           SqMagnitude(call.coordinate) = 4 * MapPairs * MapPairs

\* C8 witness: the all-one vector mapped, to MapPairs times the last basis vector
C8_Witness ==
    /\ call.returned
    /\ call.offbit = AllBits(1)
    /\ call.coordinate = <<-MapPairs, MapPairs>>

\* C9: a round that starts with the NRCI below the low threshold changes the
\* working bit vector in exactly one position and recomputes the coordinate
\* and the NRCI from it, against [1, 0, 0] and the initial resonance score; a
\* round that starts at or above it leaves the three unchanged; no round
\* changes the resonance score or the caller's bit vector.
C9_RoundEffect ==
    [][(pc = "loop" /\ pc' = "loop") =>
         /\ IF nrci < nrci_thresholds[1]
            THEN /\ Len(current_offbit') = Len(current_offbit)
                 /\ \A i \in 1..Len(current_offbit) : current_offbit'[i] \in Bits
                 /\ Cardinality({i \in 1..Len(current_offbit) :
                                   current_offbit'[i] # current_offbit[i]}) = 1
                 /\ coord_xy' = MapOffbitToA2Coordinate(current_offbit')
                 /\ nrci' = CalculateNrci(
                              SystemValues(PipelineScore(symbol_A, symbol_B), coord_xy'),
                              TargetValues).nrci
            ELSE UNCHANGED <<current_offbit, coord_xy, nrci>>
         /\ loop' = loop + 1
         /\ resonance_score' = resonance_score
         /\ resonance_score = PipelineScore(symbol_A, symbol_B)
         /\ offbit' = offbit]_vars

\* C9 witness: a round has flipped a bit of the working copy
C9_Witness ==
    /\ pc = "loop"
    /\ loop >= 1
    /\ details[loop].kind = LowKind
    /\ current_offbit # offbit
    /\ loop < feedback_loops

\* the NRCI a round finds when it starts
NrciBeforeRound(k) == IF k = 1 THEN InitialNrci ELSE history[k - 1].nrci

\* C10: bits are flipped only in a prefix of the rounds: from a round that
\* finds the NRCI at or above the low threshold on, every round takes the
\* same branch, none draws from the random source, and all log the
\* coordinate and NRCI that the record returns; if the initial NRCI is at or
\* above the low threshold no value is drawn and the returned coordinate is
\* the mapping of the caller's bit vector.
C10_FlipsOnlyInPrefix ==
    pc \in {"loop", "done"} =>
      /\ Len(details) = Len(history)
      /\ \A k \in 1..Len(details) :
           NrciBeforeRound(k) >= nrci_thresholds[1] =>
             \A j \in k..Len(details) :
               /\ details[j].kind # LowKind
               /\ details[j].kind = details[k].kind
               /\ history[j].coordinate = history[k].coordinate
               /\ history[j].nrci = history[k].nrci
               /\ pc = "done" =>
                    /\ ResultXY = history[k].coordinate
                    /\ result.nrci = history[k].nrci
      /\ rng_pos = Cardinality({k \in 1..Len(details) : details[k].kind = LowKind})
      /\ Len(rng_tape) = rng_pos
      /\ InitialNrci >= nrci_thresholds[1] =>
           /\ rng_pos = 0
           /\ current_offbit = offbit
           /\ pc = "done" => ResultXY = MapOffbitToA2Coordinate(offbit)

\* C10 witness: a flip in round 1, then two rounds on the same branch
C10_Witness ==
    /\ pc = "done"
    /\ Len(details) = 3
    /\ details[1].kind = LowKind
    /\ details[2].kind = "NRCI moderate"
    /\ details[3].kind = "NRCI moderate"

====
